---- MODULE Spec2Model ----
(***************************************************************************)
(* Model of src/naive_bayes.py: the Bayes_Classifier class, a binary       *)
(* Naive Bayes sentiment classifier (labels "1" and "5") over unigram and  *)
(* bigram features of stemmed, stopword-filtered tokens.                   *)
(*                                                                         *)
(* Representation.                                                         *)
(*  - A Python str is a sequence of characters, so that strip, split,      *)
(*    endswith and slicing are computed character by character as the      *)
(*    interpreter does.  A character is a string: a printable ASCII        *)
(*    character and each of \t \n \f \r is the one-character string of     *)
(*    itself, every other character is the string "U+" followed by the     *)
(*    four hexadecimal digits of its code point, as in "U+00A0".           *)
(*  - alpha is an integer, and a count is an integer.  A Python float      *)
(*    that is the quotient of two integers is kept exact.  A float that    *)
(*    is a sum of logarithms is kept as the sequence of the quotients      *)
(*    whose logarithms were added, in the order of the additions, and      *)
(*    float('-inf') is the logarithm of 0.  Two sums are compared as the   *)
(*    real numbers they stand for when those are far enough apart for      *)
(*    the rounding of the additions not to matter; two sums of the same    *)
(*    terms in the same order are the same float; how two other sums       *)
(*    compare depends on how the logarithms and the additions round for    *)
(*    these two sums.  The variable rounding holds the answer for each     *)
(*    such pair of sums that a classify call has compared: the first       *)
(*    comparison of a pair may go either way, and every later comparison   *)
(*    of the same pair goes the same way.                                  *)
(*  - A dict is a function whose DOMAIN is the key set.                    *)
(***************************************************************************)
EXTENDS Integers, Sequences, FiniteSets, TLC

VARIABLES
  alphaVal,         \* self.alphaVal
  useBigrams,       \* self.useBigrams
  wordCounts,       \* self.wordCounts : label -> (feature -> count)
  totalWordCounts,  \* self.totalWordCounts : label -> count
  docCounts,        \* self.docCounts : label -> count
  totalDocs,        \* self.totalDocs
  vocabSet,         \* self.vocabSet
  logPriors,        \* self.logPriors : label -> log value
  vocabSize,        \* self.vocabSize
  lastOp,           \* the most recent call
  arg,              \* the argument of the most recent call
  ret,              \* the value the most recent call returned
  skipped,          \* was the most recent train call given a line that it
                    \* did not accept
  dirty,            \* the most recent call was a train call that started
                    \* on a Model with documents of an earlier train call
  rounding          \* for each pair of float sums compared so far whose
                    \* real numbers are too close to tell them apart: does
                    \* the rounding make the first the greater one

vars ==
  << alphaVal, useBigrams, wordCounts, totalWordCounts, docCounts, totalDocs,
     vocabSet, logPriors, vocabSize, lastOp, arg, ret, skipped, dirty,
     rounding >>

modelVars ==
  << wordCounts, totalWordCounts, docCounts, totalDocs, vocabSet, logPriors,
     vocabSize >>

-----------------------------------------------------------------------------
(* Bounds of the model.                                                    *)

MaxBaseLen == 2
MaxTokens == 2
MaxTrainLines == 2
MaxClassifyLines == 2

-----------------------------------------------------------------------------
(* Characters and the str methods the program uses.                        *)

LowerLetters ==
  << "a","b","c","d","e","f","g","h","i","j","k","l","m",
     "n","o","p","q","r","s","t","u","v","w","x","y","z" >>

UpperLetters ==
  << "A","B","C","D","E","F","G","H","I","J","K","L","M",
     "N","O","P","Q","R","S","T","U","V","W","X","Y","Z" >>

Digits == { "0","1","2","3","4","5","6","7","8","9" }

\* the characters c for which c.isspace() holds: the characters that
\* str.strip() trims, that str.split() separates at and that \s of re matches
Whitespace ==
  { "\t", "\n", "U+000B", "\f", "\r", "U+001C", "U+001D", "U+001E", "U+001F",
    " ", "U+0085", "U+00A0", "U+1680", "U+2000", "U+2001", "U+2002", "U+2003",
    "U+2004", "U+2005", "U+2006", "U+2007", "U+2008", "U+2009", "U+200A",
    "U+2028", "U+2029", "U+202F", "U+205F", "U+3000" }

Range(s) == { s[i] : i \in 1..Len(s) }

\* the lowercase letter of each uppercase letter of ASCII
lowerOf == [ c \in Range(UpperLetters) |->
             LowerLetters[CHOOSE i \in 1..26 : UpperLetters[i] = c] ]

RECURSIVE lstrip(_)
lstrip(s) ==
  IF s # << >> /\ Head(s) \in Whitespace THEN lstrip(Tail(s)) ELSE s

RECURSIVE rstrip(_)
rstrip(s) ==
  IF s # << >> /\ s[Len(s)] \in Whitespace
    THEN rstrip(SubSeq(s, 1, Len(s) - 1))
    ELSE s

\* str.strip()
strip(s) == rstrip(lstrip(s))

\* str.find for a one-character separator, 1-based, 0 when absent
find(s, c) ==
  IF \E i \in 1..Len(s) : s[i] = c
    THEN CHOOSE i \in 1..Len(s) : s[i] = c /\ \A j \in 1..(i - 1) : s[j] # c
    ELSE 0

\* str.split(sep, maxsplit)
RECURSIVE split(_, _, _)
split(s, sep, maxsplit) ==
  LET i == find(s, sep)
  IN  IF maxsplit = 0 \/ i = 0
        THEN << s >>
        ELSE << SubSeq(s, 1, i - 1) >>
               \o split(SubSeq(s, i + 1, Len(s)), sep, maxsplit - 1)

\* length of the longest prefix of s without whitespace
RECURSIVE wordLen(_)
wordLen(s) ==
  IF s = << >> \/ Head(s) \in Whitespace THEN 0 ELSE 1 + wordLen(Tail(s))

\* str.split() with no argument: runs of whitespace separate, no empty piece
RECURSIVE splitWhitespace(_)
splitWhitespace(s) ==
  LET t == lstrip(s)
      n == wordLen(t)
  IN  IF t = << >>
        THEN << >>
        ELSE << SubSeq(t, 1, n) >> \o splitWhitespace(SubSeq(t, n + 1, Len(t)))

\* str.endswith
endswith(word, ending) ==
  /\ Len(ending) <= Len(word)
  /\ \A i \in 1..Len(ending) : word[Len(word) - Len(ending) + i] = ending[i]

\* the character class [a-z0-9\s']
keptChars == Range(LowerLetters) \cup Digits \cup Whitespace \cup { "'" }

\* what one character of text becomes in
\*   lowered = text.lower()
\*   cleaned = re.sub(r"[^a-z0-9\s']", "  ", lowered)
\* str.lower() turns A-Z into a-z, U+212A (KELVIN SIGN) into "k" and U+0130
\* (I WITH DOT ABOVE) into "i" followed by U+0307; it leaves the other
\* characters of keptChars as they are; every other character it leaves or
\* turns into one character outside keptChars (for U+03A3 which of two
\* depends on the characters around it).  re.sub then puts two spaces for
\* each character outside keptChars.
lowerAndClean(c) ==
  IF c \in DOMAIN lowerOf
    THEN << lowerOf[c] >>
    ELSE IF c = "U+212A"
           THEN << "k" >>
           ELSE IF c = "U+0130"
                  THEN << "i", " ", " " >>
                  ELSE IF c \in keptChars THEN << c >> ELSE << " ", " " >>

\* cleaned, for text
RECURSIVE cleanText(_)
cleanText(text) ==
  IF text = << >>
    THEN << >>
    ELSE lowerAndClean(Head(text)) \o cleanText(Tail(text))

-----------------------------------------------------------------------------
(* Inputs.                                                                 *)

\* alpha, a positive smoothing constant
AlphaValues == { 1, 2 }

SeqsUpTo(S, n) == UNION { [ 1..k -> S ] : k \in 0..n }

\* the lines train is given when train and classify calls interleave
CoreTrainLines ==
  { <<"1","|","|","t","e","r","r","i","b","l","e"," ","b","o","r","i","n","g"," ","f","i","l","m","\n">>,  \* "1||terrible boring film\n"
    <<"5","|","|","G","r","e","a","t",","," ","e","x","c","i","t","i","n","g"," ","f","i","l","m","!">>,  \* "5||Great, exciting film!"
    <<"3","|","|","g","r","e","a","t">> }  \* "3||great"

\* further lines, well-formed and malformed, for train on its own
OtherTrainLines ==
  { <<"\f","1","|","x","|","b","o","r","i","n","g","|","d","u","l","l","U+00A0">>,  \* "\f1|x|boring|dull\u00a0"
    <<>>,  \* ""
    <<" ","\t","U+000B">>,  \* " \t\v"
    <<"5","|","g","r","e","a","t">>,  \* "5|great"
    <<"5","|","|","t","h","e">> }  \* "5||the"

TrainLines == CoreTrainLines \cup OtherTrainLines

\* the lines a classify call is given
ClassifyLines ==
  << <<"5","|","g","r","e","a","t">>,  \* "5|great"
     <<"?","|","7","|","G","r","e","a","t",","," ","e","x","c","i","t","i","n","g">>,  \* "?|7|Great, exciting"
     <<"1","|","|","f","i","l","m"," ","g","r","e","a","t"," ","t","e","r","r","i","b","l","e">>,  \* "1||film great terrible"
     <<"5","|","|","t","e","r","r","i","b","l","e",","," ","b","o","r","i","n","g">>,  \* "5||terrible, boring"
     <<"1","|","|","b","o","r","i","n","g"," ","g","r","e","a","t">>,  \* "1||boring great"
     <<>> >>  \* ""

\* the words a text is made of
TextWords ==
  { <<"t","h","e">>,  \* "the"
    <<"O","f","f","e","r">>,  \* "Offer"
    <<"h","i","s","s",",">>,  \* "hiss,"
    <<"g","r","e","a","t">>,  \* "great"
    <<"d","o","n","'","t">>,  \* "don't"
    <<"w","e","l","l","-","m","a","d","e">>,  \* "well-made"
    <<"m","o","v","i","e","s","!">>,  \* "movies!"
    <<"U+212A","U+0130","t","U+00C9">> }  \* "\u212a\u0130t\u00c9"

CoreTrainInputs == SeqsUpTo(CoreTrainLines, MaxTrainLines)

TrainInputs == SeqsUpTo(TrainLines, MaxTrainLines)

\* up to MaxClassifyLines lines that follow one another in ClassifyLines,
\* read in either direction and from its end on to its start
ClassifyInputs ==
  LET n == Len(ClassifyLines)
      at(i) == ClassifyLines[(i % n) + 1]
  IN  UNION { { [ j \in 1..k |-> at(i + j) ],
                [ j \in 1..k |-> at(i + n * k - j) ] }
                : i \in 1..n, k \in 0..MaxClassifyLines }

\* " ".join(words)
RECURSIVE joinWords(_)
joinWords(words) ==
  IF words = << >>
    THEN << >>
    ELSE IF Len(words) = 1
           THEN Head(words)
           ELSE Head(words) \o << " " >> \o joinWords(Tail(words))

Texts == { joinWords(ws) : ws \in SeqsUpTo(TextWords, MaxTokens) }

-----------------------------------------------------------------------------
(* The stemmer.                                                            *)

endings ==
  << <<"a","t","i","o","n","a","l">>,
     <<"f","u","l","n","e","s","s">>,
     <<"i","v","e","n","e","s","s">>,
     <<"o","u","s","n","e","s","s">>,
     <<"i","z","a","t","i","o","n">>,
     <<"b","i","l","i","t","i">>,
     <<"t","i","o","n","a","l">>,
     <<"l","e","s","s","l","i">>,
     <<"e","n","t","l","i">>,
     <<"a","t","i","o","n">>,
     <<"a","l","i","s","m">>,
     <<"a","l","i","t","i">>,
     <<"o","u","s","l","i">>,
     <<"f","u","l","l","i">>,
     <<"e","n","c","i">>,
     <<"a","n","c","i">>,
     <<"a","b","l","i">>,
     <<"i","z","e","r">>,
     <<"a","t","o","r">>,
     <<"l","o","g","i">>,
     <<"i","c","a","l">>,
     <<"n","e","s","s">>,
     <<"m","e","n","t">>,
     <<"i","n","g","l","y">>,
     <<"e","d","l","y">>,
     <<"i","n","g">>,
     <<"e","r","s">>,
     <<"i","e","s">>,
     <<"i","e","d">>,
     <<"l","y">>,
     <<"e","d">>,
     <<"e","s">>,
     <<"s">> >>

\* stripEnding without the check that at least 3 characters remain
RECURSIVE stripEnding_noFloor(_, _)
stripEnding_noFloor(word, i) ==
  IF i > Len(endings)
    THEN word
    ELSE IF endswith(word, endings[i])
           THEN SubSeq(word, 1, Len(word) - Len(endings[i]))
           ELSE stripEnding_noFloor(word, i + 1)

\* the for loop over endings: the first ending that matches and leaves at
\* least 3 characters is stripped, then the loop breaks
RECURSIVE stripEnding(_, _)
stripEnding(word, i) ==
  IF i > Len(endings)
    THEN word
    ELSE IF endswith(word, endings[i]) /\ Len(word) - Len(endings[i]) >= 3
           THEN SubSeq(word, 1, Len(word) - Len(endings[i]))
           ELSE stripEnding(word, i + 1)

\* if word.endswith(suffix) and len(word) > minLen: word = word[:-len(suffix)]
stripSuffix(word, suffix, minLen) ==
  IF endswith(word, suffix) /\ Len(word) > minLen
    THEN SubSeq(word, 1, Len(word) - Len(suffix))
    ELSE word

\* the value of word when control reaches "if not word"
stemStripped(word) ==
  LET w1 == stripEnding(word, 1)
      w2 == stripSuffix(w1, << "e", "r" >>, 4)
      w3 == stripSuffix(w2, << "l", "y" >>, 4)
  IN  stripSuffix(w3, << "e" >>, 3)

_stemWord(word) ==
  IF Len(word) <= 3
    THEN word
    ELSE LET saved == word
             w == stemStripped(word)
         IN  IF w = << >> THEN saved ELSE w

-----------------------------------------------------------------------------
(* The stopword set, the tokenizer and the feature extractor.              *)

_buildStopwords ==
  { <<"a">>, <<"a","b","o","u","t">>, <<"a","b","o","v","e">>,
    <<"a","f","t","e","r">>, <<"a","g","a","i","n">>,
    <<"a","g","a","i","n","s","t">>, <<"a","l","l">>, <<"a","m">>, <<"a","n">>,
    <<"a","n","d">>, <<"a","n","y">>, <<"a","r","e">>,
    <<"a","r","e","n","'","t">>, <<"a","s">>, <<"a","t">>, <<"b","e">>,
    <<"b","e","c","a","u","s","e">>, <<"b","e","e","n">>,
    <<"b","e","f","o","r","e">>, <<"b","e","i","n","g">>,
    <<"b","e","l","o","w">>, <<"b","e","t","w","e","e","n">>,
    <<"b","o","t","h">>, <<"b","u","t">>, <<"b","y">>, <<"c","a","n">>,
    <<"c","a","n","'","t">>, <<"c","a","n","n","o","t">>,
    <<"c","o","u","l","d">>, <<"c","o","u","l","d","n","'","t">>,
    <<"d","i","d">>, <<"d","i","d","n","'","t">>, <<"d","o">>,
    <<"d","o","e","s">>, <<"d","o","e","s","n","'","t">>,
    <<"d","o","i","n","g">>, <<"d","o","n","'","t">>, <<"d","o","w","n">>,
    <<"d","u","r","i","n","g">>, <<"e","a","c","h">>, <<"f","e","w">>,
    <<"f","o","r">>, <<"f","r","o","m">>, <<"f","u","r","t","h","e","r">>,
    <<"h","a","d">>, <<"h","a","d","n","'","t">>, <<"h","a","s">>,
    <<"h","a","s","n","'","t">>, <<"h","a","v","e">>,
    <<"h","a","v","e","n","'","t">>, <<"h","a","v","i","n","g">>, <<"h","e">>,
    <<"h","e","'","d">>, <<"h","e","'","l","l">>, <<"h","e","'","s">>,
    <<"h","e","r">>, <<"h","e","r","e">>, <<"h","e","r","e","'","s">>,
    <<"h","e","r","s">>, <<"h","e","r","s","e","l","f">>, <<"h","i","m">>,
    <<"h","i","m","s","e","l","f">>, <<"h","i","s">>, <<"h","o","w">>,
    <<"h","o","w","'","s">>, <<"i">>, <<"i","'","d">>, <<"i","'","l","l">>,
    <<"i","'","m">>, <<"i","'","v","e">>, <<"i","f">>, <<"i","n">>,
    <<"i","n","t","o">>, <<"i","s">>, <<"i","s","n","'","t">>, <<"i","t">>,
    <<"i","t","'","s">>, <<"i","t","s">>, <<"i","t","s","e","l","f">>,
    <<"l","e","t","'","s">>, <<"m","e">>, <<"m","o","r","e">>,
    <<"m","o","s","t">>, <<"m","u","s","t","n","'","t">>, <<"m","y">>,
    <<"m","y","s","e","l","f">>, <<"n","o">>, <<"n","o","r">>, <<"n","o","t">>,
    <<"o","f">>, <<"o","f","f">>, <<"o","n">>, <<"o","n","c","e">>,
    <<"o","n","l","y">>, <<"o","r">>, <<"o","t","h","e","r">>,
    <<"o","u","g","h","t">>, <<"o","u","r">>, <<"o","u","r","s">>,
    <<"o","u","r","s","e","l","v","e","s">>, <<"o","u","t">>,
    <<"o","v","e","r">>, <<"o","w","n">>, <<"s","a","m","e">>,
    <<"s","h","a","n","'","t">>, <<"s","h","e">>, <<"s","h","e","'","d">>,
    <<"s","h","e","'","l","l">>, <<"s","h","e","'","s">>,
    <<"s","h","o","u","l","d">>, <<"s","h","o","u","l","d","n","'","t">>,
    <<"s","o">>, <<"s","o","m","e">>, <<"s","u","c","h">>, <<"t","h","a","n">>,
    <<"t","h","a","t">>, <<"t","h","a","t","'","s">>, <<"t","h","e">>,
    <<"t","h","e","i","r">>, <<"t","h","e","i","r","s">>, <<"t","h","e","m">>,
    <<"t","h","e","m","s","e","l","v","e","s">>, <<"t","h","e","n">>,
    <<"t","h","e","r","e">>, <<"t","h","e","r","e","'","s">>,
    <<"t","h","e","s","e">>, <<"t","h","e","y">>, <<"t","h","e","y","'","d">>,
    <<"t","h","e","y","'","l","l">>, <<"t","h","e","y","'","r","e">>,
    <<"t","h","e","y","'","v","e">>, <<"t","h","i","s">>,
    <<"t","h","o","s","e">>, <<"t","h","r","o","u","g","h">>, <<"t","o">>,
    <<"t","o","o">>, <<"u","n","d","e","r">>, <<"u","n","t","i","l">>,
    <<"u","p">>, <<"v","e","r","y">>, <<"w","a","s">>,
    <<"w","a","s","n","'","t">>, <<"w","e">>, <<"w","e","'","d">>,
    <<"w","e","'","l","l">>, <<"w","e","'","r","e">>, <<"w","e","'","v","e">>,
    <<"w","e","r","e">>, <<"w","e","r","e","n","'","t">>, <<"w","h","a","t">>,
    <<"w","h","a","t","'","s">>, <<"w","h","e","n">>,
    <<"w","h","e","n","'","s">>, <<"w","h","e","r","e">>,
    <<"w","h","e","r","e","'","s">>, <<"w","h","i","c","h">>,
    <<"w","h","i","l","e">>, <<"w","h","o">>, <<"w","h","o","'","s">>,
    <<"w","h","o","m">>, <<"w","h","y">>, <<"w","h","y","'","s">>,
    <<"w","i","t","h">>, <<"w","o","n","'","t">>, <<"w","o","u","l","d">>,
    <<"w","o","u","l","d","n","'","t">>, <<"y","o","u">>,
    <<"y","o","u","'","d">>, <<"y","o","u","'","l","l">>,
    <<"y","o","u","'","r","e">>, <<"y","o","u","'","v","e">>,
    <<"y","o","u","r">>, <<"y","o","u","r","s">>,
    <<"y","o","u","r","s","e","l","f">>,
    <<"y","o","u","r","s","e","l","v","e","s">> }

stopWords == _buildStopwords

\* rawTokens = cleaned.split()
rawTokens(text) == splitWhitespace(cleanText(text))

\* filterAndStem without the stopword test
RECURSIVE filterAndStem_noFilter(_)
filterAndStem_noFilter(toks) ==
  IF toks = << >>
    THEN << >>
    ELSE << _stemWord(Head(toks)) >> \o filterAndStem_noFilter(Tail(toks))

\* the for loop over rawTokens
RECURSIVE filterAndStem(_)
filterAndStem(toks) ==
  IF toks = << >>
    THEN << >>
    ELSE (IF Head(toks) \notin stopWords
            THEN << _stemWord(Head(toks)) >>
            ELSE << >>) \o filterAndStem(Tail(toks))

\* the body of _tokenizeText
tokenize(text) == filterAndStem(rawTokens(text))

\* the text classify extracts features from: the third field of the line,
\* the empty text when the line has no third field
textOfLine(rawLine) ==
  LET line == strip(rawLine)
      parts == split(line, "|", 2)
  IN  IF Len(parts) = 3 THEN parts[3] ELSE << >>

\* _tokenizeText is a pure function of its argument: its values on the
\* texts of the input lines are computed once and looked up afterwards
tokenTable ==
  [ text \in { textOfLine(l) : l \in TrainLines \cup Range(ClassifyLines) } |->
      tokenize(text) ]

_tokenizeText(text) ==
  IF text \in DOMAIN tokenTable THEN tokenTable[text] ELSE tokenize(text)

\* for token in tokens: if token: features.append(token)
RECURSIVE unigramLoop(_)
unigramLoop(tokens) ==
  IF tokens = << >>
    THEN << >>
    ELSE (IF Head(tokens) # << >> THEN << Head(tokens) >> ELSE << >>)
           \o unigramLoop(Tail(tokens))

\* while idx < len(tokens) - 1, idx counted from 0 as in the source
RECURSIVE bigramLoop(_, _)
bigramLoop(tokens, idx) ==
  IF idx < Len(tokens) - 1
    THEN << tokens[idx + 1] \o << "_" >> \o tokens[idx + 2] >>
           \o bigramLoop(tokens, idx + 1)
    ELSE << >>

\* bigramsWanted that does not read self.useBigrams
bigramsWanted_ignoreFlag(flag, tokens) == Len(tokens) > 1

\* the guard of the bigram block
bigramsWanted(flag, tokens) == flag /\ Len(tokens) > 1

extractFeaturesWith(flag, text) ==
  LET tokens == _tokenizeText(text)
      features == unigramLoop(tokens)
  IN  IF bigramsWanted(flag, tokens)
        THEN features \o bigramLoop(tokens, 0)
        ELSE features

_extractFeatures(text) == extractFeaturesWith(useBigrams, text)

-----------------------------------------------------------------------------------------------------------------------------------------------------
(* Natural numbers of any size, for the products of counts that compare    *)
(* two sums of logarithms: a sequence of limbs below Base, the least       *)
(* significant first, no limb for zero.                                    *)

Base == 10000

RECURSIVE bigOf(_)
bigOf(n) == IF n = 0 THEN << >> ELSE << n % Base >> \o bigOf(n \div Base)

RECURSIVE bigMulCarry(_, _, _)
bigMulCarry(x, k, carry) ==
  IF x = << >>
    THEN bigOf(carry)
    ELSE LET v == Head(x) * k + carry
         IN  << v % Base >> \o bigMulCarry(Tail(x), k, v \div Base)

\* x * k for a natural number k of at most 100000
bigMul(x, k) == IF k = 0 THEN << >> ELSE bigMulCarry(x, k, 0)

RECURSIVE bigAddCarry(_, _, _)
bigAddCarry(x, y, carry) ==
  IF x = << >> /\ y = << >>
    THEN bigOf(carry)
    ELSE LET v == (IF x = << >> THEN 0 ELSE Head(x))
                    + (IF y = << >> THEN 0 ELSE Head(y)) + carry
         IN  << v % Base >>
               \o bigAddCarry(IF x = << >> THEN << >> ELSE Tail(x),
                              IF y = << >> THEN << >> ELSE Tail(y),
                              v \div Base)

\* x + y
bigAdd(x, y) == bigAddCarry(x, y, 0)

\* x * y
RECURSIVE bigProduct(_, _)
bigProduct(x, y) ==
  IF x = << >> \/ y = << >>
    THEN << >>
    ELSE LET rest == bigProduct(x, Tail(y))
         IN  bigAdd(bigMul(x, Head(y)),
                    IF rest = << >> THEN << >> ELSE << 0 >> \o rest)

\* x < y
RECURSIVE bigLess(_, _)
bigLess(x, y) ==
  IF Len(x) # Len(y)
    THEN Len(x) < Len(y)
    ELSE IF x = << >>
           THEN FALSE
           ELSE IF x[Len(x)] # y[Len(y)]
                  THEN x[Len(x)] < y[Len(y)]
                  ELSE bigLess(SubSeq(x, 1, Len(x) - 1),
                               SubSeq(y, 1, Len(y) - 1))

-----------------------------------------------------------------------------
(* Floats.                                                                 *)

\* numerator / denominator for two integers and a positive denominator;
\* the record stands for num / (den * 10^(12 * e12))
Frac(n, d) == [num |-> n, den |-> d, e12 |-> 0]

\* the literal 1e-12
Floor1e12 == [num |-> 1, den |-> 1, e12 |-> 1]

\* if value <= 0: value = 1e-12
clampPositive(q) == IF q.num <= 0 THEN Floor1e12 ELSE q

\* math.log(q): a sum of one term
mathLog(q) == [terms |-> << q >>]

\* float('-inf'), the logarithm of 0
NegInf == [terms |-> << Frac(0, 1) >>]

\* a + b for two sums of logarithms
logAdd(a, b) == [terms |-> a.terms \o b.terms]

\* x * acc * the product of the natural numbers ks, none above 100000;
\* factors are multiplied as machine integers as long as they stay small
RECURSIVE bigTimes(_, _, _)
bigTimes(x, acc, ks) ==
  IF ks = << >>
    THEN bigMul(x, acc)
    ELSE IF Head(ks) = 0
           THEN << >>
           ELSE IF acc <= 100000 \div Head(ks)
                  THEN bigTimes(x, acc * Head(ks), Tail(ks))
                  ELSE bigTimes(bigMul(x, acc), Head(ks), Tail(ks))

\* the numerators of the terms
numerators(terms) == [ i \in 1..Len(terms) |-> terms[i].num ]

\* how many elements of the sequence xs are k
occurrences(xs, k) == Cardinality({ i \in 1..Len(xs) : xs[i] = k })

\* the sequence of n elements k
copies(k, n) == [ i \in 1..n |-> k ]

\* the denominators of the terms, 10^12 as three factors 10^4
denominators(terms) ==
  [ i \in 1..Len(terms) |-> terms[i].den ]
    \o copies(10000,
              3 * Cardinality({ i \in 1..Len(terms) : terms[i].e12 = 1 }))

\* the factors of xs that are left when every factor that ys has too is
\* struck from both, one for one; ks are the different factors of xs
RECURSIVE leftOver(_, _, _)
leftOver(xs, ys, ks) ==
  IF ks = {}
    THEN << >>
    ELSE LET k == CHOOSE x \in ks : TRUE
             n == occurrences(xs, k) - occurrences(ys, k)
         IN  (IF n > 0 THEN copies(k, n) ELSE << >>)
               \o leftOver(xs, ys, ks \ { k })

\* << p, q >> with exp(a) / exp(b) = p / q, for two sums other than
\* float('-inf'): the numerators of a times the denominators of b, over the
\* numerators of b times the denominators of a, without their shared factors
crossProducts(a, b) ==
  LET xs == numerators(a.terms) \o denominators(b.terms)
      ys == numerators(b.terms) \o denominators(a.terms)
  IN  << bigTimes(bigOf(1), 1, leftOver(xs, ys, Range(xs))),
         bigTimes(bigOf(1), 1, leftOver(ys, xs, Range(ys))) >>

\* two quotients that are the same real number, hence the same float
sameQuotient(q, r) == q.e12 = r.e12 /\ q.num * r.den = r.num * q.den

\* a sum with the term float('-inf') is float('-inf')
isNegInf(a) == \E i \in 1..Len(a.terms) : a.terms[i].num = 0

\* a and b are both float('-inf'), or add the logarithms of the same floats
\* in the same order: they are the same float
sameFloat(a, b) ==
  \/ isNegInf(a) /\ isNegInf(b)
  \/ /\ Len(a.terms) = Len(b.terms)
     /\ \A i \in 1..Len(a.terms) : sameQuotient(a.terms[i], b.terms[i])

\* the least k with big <= small * 2^k, for two positive integers
RECURSIVE halvings(_, _)
halvings(big, small) ==
  IF big <= small THEN 0 ELSE 1 + halvings((big + 1) \div 2, small)

\* a natural number that |math.log(q)| does not exceed, for a quotient
\* above 0; ln 2 < 1 and ln 10^12 < 28
logBound(q) ==
  (IF q.num <= q.den THEN halvings(q.den, q.num) ELSE halvings(q.num, q.den))
    + 28 * q.e12

\* the sum of logBound over the terms; qs are the different terms
RECURSIVE logBounds(_, _)
logBounds(terms, qs) ==
  IF qs = {}
    THEN 0
    ELSE LET q == CHOOSE x \in qs : TRUE
         IN  occurrences(terms, q) * logBound(q)
               + logBounds(terms, qs \ { q })

\* how far the float of the sum a can be from the real number, counted in
\* 2^-52 and rounded up, for a sum of at most 100000 terms: the division and
\* the logarithm of every term are rounded, and so is every addition, by a
\* relative 2^-53 of a partial sum that the sum of the logBound does not
\* exceed
roundingError(a) ==
  bigMul(bigOf(logBounds(a.terms, Range(a.terms)) + 1), Len(a.terms) + 1)

\* the distance in 10^-16 that tells the floats of a and b apart; 2^-52 is
\* less than 3 / 10^16
margin(a, b) == bigMul(bigAdd(roundingError(a), roundingError(b)), 3)

\* p - q > p * k / 10^16, for natural numbers p, q above 0 and k
clearlyMore(p, q, k) ==
  bigLess(bigAdd(<< 0, 0, 0, 0 >> \o q, bigProduct(p, k)),
          << 0, 0, 0, 0 >> \o p)

\* a and b are not the same float, and as real numbers they are too close
\* for the real numbers to tell which float is the greater
tooClose(a, b) ==
  /\ ~sameFloat(a, b)
  /\ ~isNegInf(a)
  /\ ~isNegInf(b)
  /\ LET pq == crossProducts(a, b)
         k == margin(a, b)
     IN  ~clearlyMore(pq[1], pq[2], k) /\ ~clearlyMore(pq[2], pq[1], k)

RECURSIVE gcd(_, _)
gcd(a, b) == IF b = 0 THEN a ELSE gcd(b, a % b)

\* the quotient in lowest terms: quotients that are the same real number
\* are the same float
lowestTerms(q) ==
  LET g == gcd(q.num, q.den)
  IN  [num |-> q.num \div g, den |-> q.den \div g, e12 |-> q.e12]

\* the floats that are added up to a, in the order of the additions
floatsOf(a) == [ i \in 1..Len(a.terms) |-> lowestTerms(a.terms[i]) ]

\* the comparison a > b, as the two float computations it compares
comparison(a, b) == << floatsOf(a), floatsOf(b) >>

\* logGreater with >= for >
logGreater_orEqual(rnd, a, b) ==
  IF sameFloat(a, b)
    THEN TRUE
    ELSE IF isNegInf(a) \/ isNegInf(b)
           THEN isNegInf(b)
           ELSE LET pq == crossProducts(a, b)
                    k == margin(a, b)
                IN  IF clearlyMore(pq[1], pq[2], k)
                      THEN TRUE
                      ELSE IF clearlyMore(pq[2], pq[1], k)
                             THEN FALSE
                             ELSE rnd[comparison(a, b)]

\* a > b for two sums of logarithms; rnd is how the comparisons that depend
\* on the rounding come out
logGreater(rnd, a, b) ==
  IF sameFloat(a, b)
    THEN FALSE
    ELSE IF isNegInf(a) \/ isNegInf(b)
           THEN isNegInf(b)
           ELSE LET pq == crossProducts(a, b)
                    k == margin(a, b)
                IN  IF clearlyMore(pq[1], pq[2], k)
                      THEN TRUE
                      ELSE IF clearlyMore(pq[2], pq[1], k)
                             THEN FALSE
                             ELSE rnd[comparison(a, b)]

-----------------------------------------------------------------------------
(* The Model and the train operation.                                      *)

\* self.labels = ('1', '5')
labels == << << "1" >>, << "5" >> >>

labelSet == Range(labels)

\* the fields of self that _resetModel, train and classify read and write
self ==
  [ wordCounts |-> wordCounts, totalWordCounts |-> totalWordCounts,
    docCounts |-> docCounts, totalDocs |-> totalDocs, vocabSet |-> vocabSet,
    logPriors |-> logPriors, vocabSize |-> vocabSize ]

\* defaultdict(int)
emptyDict == [ k \in {} |-> 0 ]

_resetModel(m) ==
  [ wordCounts |-> [ label \in labelSet |-> emptyDict ],
    totalWordCounts |-> [ label \in labelSet |-> 0 ],
    docCounts |-> [ label \in labelSet |-> 0 ],
    totalDocs |-> 0,
    vocabSet |-> {},
    logPriors |-> [ label \in labelSet |-> NegInf ],
    vocabSize |-> 1 ]

\* d[k] += 1 on a defaultdict(int)
increment(d, k) ==
  [ x \in DOMAIN d \cup {k} |->
      IF x = k THEN (IF k \in DOMAIN d THEN d[k] ELSE 0) + 1 ELSE d[x] ]

\* for token in feats: the three updates of the loop body
RECURSIVE countFeatures(_, _, _)
countFeatures(m, label, feats) ==
  IF feats = << >>
    THEN m
    ELSE LET token == Head(feats)
         IN  countFeatures(
               [ m EXCEPT !.wordCounts[label] = increment(@, token),
                          !.totalWordCounts[label] = @ + 1,
                          !.vocabSet = @ \cup {token} ],
               label, Tail(feats))

\* trainLine that counts the document before it validates the line
trainLine_countFirst(m, rawLine) ==
  LET counted == [ m EXCEPT !.totalDocs = @ + 1 ]
      pieces == split(strip(rawLine), "|", 2)
  IN  IF rawLine = << >> \/ strip(rawLine) = << >> \/ Len(pieces) # 3
        THEN counted
        ELSE IF pieces[1] \notin DOMAIN m.wordCounts
               THEN counted
               ELSE countFeatures(
                      [ counted EXCEPT !.docCounts[pieces[1]] = @ + 1 ],
                      pieces[1], _extractFeatures(pieces[3]))

\* one iteration of "for rawLine in lines" of train
trainLine(m, rawLine) ==
  IF rawLine = << >>
    THEN m
    ELSE
      LET line == strip(rawLine)
      IN  IF line = << >>
            THEN m
            ELSE
              LET pieces == split(line, "|", 2)
              IN  IF Len(pieces) # 3
                    THEN m
                    ELSE
                      LET label == pieces[1]
                          reviewText == pieces[3]
                      IN  IF label \notin DOMAIN m.wordCounts
                            THEN m
                            ELSE countFeatures(
                                   [ m EXCEPT !.docCounts[label] = @ + 1,
                                              !.totalDocs = @ + 1 ],
                                   label, _extractFeatures(reviewText))

RECURSIVE trainLoop(_, _)
trainLoop(m, lines) ==
  IF lines = << >> THEN m ELSE trainLoop(trainLine(m, Head(lines)), Tail(lines))

\* setVocabSize without the guard for an empty vocabulary
setVocabSize_noGuard(m) == [ m EXCEPT !.vocabSize = Cardinality(m.vocabSet) ]

\* if len(self.vocabSet) > 0: self.vocabSize = len(self.vocabSet)
setVocabSize(m) ==
  IF Cardinality(m.vocabSet) > 0
    THEN [ m EXCEPT !.vocabSize = Cardinality(m.vocabSet) ]
    ELSE m

\* the prior of one label
logPrior(m, label, priorDenom) ==
  LET numerator == m.docCounts[label] + alphaVal
      chance == clampPositive(Frac(numerator, priorDenom))
  IN  mathLog(chance)

\* the block from totalLabels to the end of train
setLogPriors(m) ==
  LET totalLabels == Len(labels)
      sum == m.totalDocs + totalLabels * alphaVal
      priorDenom == IF sum = 0 THEN 1 ELSE sum
  IN  [ m EXCEPT !.logPriors =
          [ label \in labelSet |-> logPrior(m, label, priorDenom) ] ]

\* train without the call of _resetModel
train_noReset(m, lines) == setLogPriors(setVocabSize(trainLoop(m, lines)))

train(m, lines) == setLogPriors(setVocabSize(trainLoop(_resetModel(m), lines)))

-----------------------------------------------------------------------------
(* The classify operation.                                                 *)

\* d[k] for d.get(k, 0): on a defaultdict(int) it inserts a missing key
dictGet_insert(d, k) ==
  [ dict |-> IF k \in DOMAIN d
               THEN d
               ELSE [ x \in DOMAIN d \cup {k} |-> IF x = k THEN 0 ELSE d[x] ],
    value |-> IF k \in DOMAIN d THEN d[k] ELSE 0 ]

\* d.get(k, 0); the dict is returned with the value because a lookup on a
\* defaultdict can insert the key it is asked for
dictGet(d, k) ==
  [ dict |-> d, value |-> IF k \in DOMAIN d THEN d[k] ELSE 0 ]

\* for token in feats: logScore += math.log(value)
RECURSIVE scoreTokens(_, _, _, _)
scoreTokens(d, logScore, denom, feats) ==
  IF feats = << >>
    THEN [ dict |-> d, logScore |-> logScore ]
    ELSE LET got == dictGet(d, Head(feats))
             count == got.value
             value == clampPositive(Frac(count + alphaVal, denom))
         IN  scoreTokens(got.dict, logAdd(logScore, mathLog(value)), denom,
                         Tail(feats))

\* denominatorCache[label]
denominatorCache(m, label) ==
  m.totalWordCounts[label] + alphaVal * m.vocabSize

\* scoreCard[label] = ... on a dict
setItem(d, k, v) == [ x \in DOMAIN d \cup {k} |-> IF x = k THEN v ELSE d[x] ]

\* for label in self.labels: fill scoreCard; st = [wordCounts, scoreCard]
RECURSIVE scoreLabels(_, _, _, _)
scoreLabels(m, st, feats, i) ==
  IF i > Len(labels)
    THEN st
    ELSE
      LET label == labels[i]
      IN  IF m.docCounts[label] = 0
            THEN scoreLabels(m,
                   [ st EXCEPT !.scoreCard = setItem(@, label, NegInf) ],
                   feats, i + 1)
            ELSE
              LET cached == denominatorCache(m, label)
                  denom == IF cached = 0 THEN 1 ELSE cached
                  r == scoreTokens(st.wordCounts[label], m.logPriors[label],
                                   denom, feats)
              IN  scoreLabels(m,
                    [ wordCounts |-> [ st.wordCounts EXCEPT ![label] = r.dict ],
                      scoreCard |-> setItem(st.scoreCard, label, r.logScore) ],
                    feats, i + 1)

\* scoreCard.get(label, float('-inf'))
scoreGet(scoreCard, label) ==
  IF label \in DOMAIN scoreCard THEN scoreCard[label] ELSE NegInf

\* for label in self.labels: if scoreCard.get(label) > bestVal: ...
RECURSIVE pickBest(_, _, _, _, _)
pickBest(rnd, scoreCard, bestLabel, bestVal, i) ==
  IF i > Len(labels)
    THEN bestLabel
    ELSE IF logGreater(rnd, scoreGet(scoreCard, labels[i]), bestVal)
           THEN pickBest(rnd, scoreCard, labels[i], scoreCard[labels[i]], i + 1)
           ELSE pickBest(rnd, scoreCard, bestLabel, bestVal, i + 1)

\* classifyLine that skips a malformed line as train does
classifyLine_skipMalformed(rnd, m, st, rawLine) ==
  LET feats == _extractFeatures(textOfLine(rawLine))
      scored == scoreLabels(m,
                  [ wordCounts |-> st.wordCounts, scoreCard |-> emptyDict ],
                  feats, 1)
      bestLabel == pickBest(rnd, scored.scoreCard, << "1" >>,
                            scoreGet(scored.scoreCard, << "1" >>), 1)
  IN  IF Len(split(strip(rawLine), "|", 2)) # 3
        THEN st
        ELSE [ wordCounts |-> scored.wordCounts,
               predictions |-> Append(st.predictions, bestLabel) ]

\* one iteration of "for rawLine in lines" of classify;
\* st = [wordCounts, predictions]
classifyLine(rnd, m, st, rawLine) ==
  LET feats == _extractFeatures(textOfLine(rawLine))
      scored == scoreLabels(m,
                  [ wordCounts |-> st.wordCounts, scoreCard |-> emptyDict ],
                  feats, 1)
      bestLabel == pickBest(rnd, scored.scoreCard, << "1" >>,
                            scoreGet(scored.scoreCard, << "1" >>), 1)
  IN  [ wordCounts |-> scored.wordCounts,
        predictions |-> Append(st.predictions, bestLabel) ]

RECURSIVE classifyLoop(_, _, _, _)
classifyLoop(rnd, m, st, lines) ==
  IF lines = << >>
    THEN st
    ELSE classifyLoop(rnd, m, classifyLine(rnd, m, st, Head(lines)),
                      Tail(lines))

\* returns the predictions and self.wordCounts as the call leaves it
classify(rnd, m, lines) ==
  classifyLoop(rnd, m,
               [ wordCounts |-> m.wordCounts, predictions |-> << >> ], lines)

\* the comparisons of line 102 that classify(m, lines) makes and that depend
\* on the rounding: bestVal is the score of "1" until a greater one is found
comparisonsOf(m, lines) ==
  { c \in UNION {
      LET feats == _extractFeatures(textOfLine(lines[i]))
          scoreCard == scoreLabels(m,
                         [ wordCounts |-> m.wordCounts,
                           scoreCard |-> emptyDict ],
                         feats, 1).scoreCard
      IN  { << scoreGet(scoreCard, labels[j]), scoreGet(scoreCard, << "1" >>) >>
              : j \in 1..Len(labels) } : i \in 1..Len(lines) }
      : tooClose(c[1], c[2]) }

\* rnd with an outcome for each comparison of classify(m, lines) that depends
\* on the rounding: the outcome rnd has, either outcome where rnd has none
roundings(rnd, m, lines) ==
  LET new == { comparison(c[1], c[2]) : c \in comparisonsOf(m, lines) }
               \ DOMAIN rnd
  IN  { [ k \in DOMAIN rnd \cup new |->
            IF k \in DOMAIN rnd THEN rnd[k] ELSE g[k] ]
          : g \in [ new -> BOOLEAN ] }

-----------------------------------------------------------------------------
(* The classifier: construction, train and classify.                       *)

\* the instance before __init__ has created the Model fields
blank ==
  [ wordCounts |-> << >>, totalWordCounts |-> << >>, docCounts |-> << >>,
    totalDocs |-> 0, vocabSet |-> {}, logPriors |-> << >>, vocabSize |-> 0 ]

\* the Model of a freshly constructed classifier
constructed == _resetModel(blank)

setModel(m) ==
  /\ wordCounts' = m.wordCounts
  /\ totalWordCounts' = m.totalWordCounts
  /\ docCounts' = m.docCounts
  /\ totalDocs' = m.totalDocs
  /\ vocabSet' = m.vocabSet
  /\ logPriors' = m.logPriors
  /\ vocabSize' = m.vocabSize

\* __init__, then no call yet
InitWith(alphas, flags, inputs) ==
  /\ alphaVal \in alphas
  /\ useBigrams \in flags
  /\ wordCounts = constructed.wordCounts
  /\ totalWordCounts = constructed.totalWordCounts
  /\ docCounts = constructed.docCounts
  /\ totalDocs = constructed.totalDocs
  /\ vocabSet = constructed.vocabSet
  /\ logPriors = constructed.logPriors
  /\ vocabSize = constructed.vocabSize
  /\ lastOp = "init"
  /\ arg \in inputs
  /\ ret = << >>
  /\ skipped = FALSE
  /\ dirty = FALSE
  /\ rounding = [ k \in {} |-> FALSE ]

\* useBigrams keeps its default in the runs of train and classify; both
\* values are run through the feature extractor on its own below
Init == InitWith(AlphaValues, { TRUE }, { << >> })

Train(lines) ==
  /\ \E m \in { train(self, lines) } :
       /\ setModel(m)
       /\ skipped' = (m.totalDocs < Len(lines))
  /\ lastOp' = "train"
  /\ arg' = lines
  /\ ret' = << >>
  /\ dirty' = (totalDocs > 0)
  /\ UNCHANGED << alphaVal, useBigrams, rounding >>

Classify(lines) ==
  /\ \E rnd \in roundings(rounding, self, lines) :
       /\ rounding' = rnd
       /\ \E r \in { classify(rnd, self, lines) } :
            /\ wordCounts' = r.wordCounts
            /\ ret' = r.predictions
  /\ lastOp' = "classify"
  /\ arg' = lines
  /\ dirty' = FALSE
  /\ UNCHANGED << alphaVal, useBigrams, totalWordCounts, docCounts, totalDocs,
                  vocabSet, logPriors, vocabSize, skipped >>

Next ==
  \/ \E lines \in CoreTrainInputs : Train(lines)
  \/ \E lines \in ClassifyInputs : Classify(lines)

Spec == Init /\ [][Next]_vars

-----------------------------------------------------------------------------
(* train on its own, over well-formed and malformed lines.                 *)

NextTrain == \E lines \in TrainInputs : Train(lines)

SpecTrain == Init /\ [][NextTrain]_vars

-----------------------------------------------------------------------------
(* The stemmer on its own: a word is drawn, then stemmed.                  *)

\* suffixes a word is built from: every ending of the stemmer, the suffixes
\* of its three extra rules, and none
Suffixes ==
  Range(endings) \cup { << >>, << "e" >>, << "e", "r" >>,
                        << "e", "r", "l", "y" >> }

Words ==
  { b \o s1 \o s2 : b \in SeqsUpTo({ "a", "t" }, MaxBaseLen),
                    s1 \in Suffixes, s2 \in Suffixes }

InitStem == InitWith({ 1 }, { TRUE }, Words)

StemWord ==
  /\ lastOp = "init"
  /\ lastOp' = "_stemWord"
  /\ ret' = _stemWord(arg)
  /\ UNCHANGED << alphaVal, useBigrams, modelVars, arg, skipped, dirty,
                  rounding >>

NextStem == StemWord

SpecStem == InitStem /\ [][NextStem]_vars

-----------------------------------------------------------------------------
(* The tokenizer and the feature extractor on their own.                   *)

InitFeat == InitWith({ 1 }, BOOLEAN, Texts)

TokenizeText ==
  /\ lastOp' = "_tokenizeText"
  /\ ret' = _tokenizeText(arg)
  /\ UNCHANGED << alphaVal, useBigrams, modelVars, arg, skipped, dirty,
                  rounding >>

ExtractFeatures ==
  /\ lastOp' = "_extractFeatures"
  /\ ret' = _extractFeatures(arg)
  /\ UNCHANGED << alphaVal, useBigrams, modelVars, arg, skipped, dirty,
                  rounding >>

NextFeat == TokenizeText \/ ExtractFeatures

SpecFeat == InitFeat /\ [][NextFeat]_vars

-----------------------------------------------------------------------------
(* Properties.                                                             *)

IsPrefix(a, b) == Len(a) <= Len(b) /\ SubSeq(b, 1, Len(a)) = a

Min(a, b) == IF a <= b THEN a ELSE b

Max(a, b) == IF a >= b THEN a ELSE b

\* the number of occurrences of character c in s
CountChar(s, c) == Cardinality({ i \in 1..Len(s) : s[i] = c })

NEG == << "1" >>

POS == << "5" >>

\* C10: stem(word) is a prefix of word of length at least min(len(word), 3):
\* a word of at most 3 characters is returned unchanged, a longer word is
\* never cut below 3 characters, a non-empty word never gives the empty
\* string, and the stripping never leaves the empty word, so that the
\* fallback to the saved word is never taken.
C10_StemmerFloor ==
  lastOp = "_stemWord" =>
    /\ IsPrefix(ret, arg)
    /\ Len(ret) >= Min(Len(arg), 3)
    /\ Len(arg) <= 3 => ret = arg
    /\ arg # << >> => ret # << >>
    /\ Len(arg) > 3 => stemStripped(arg) # << >>

\* a word longer than 3 characters that was cut down to exactly 3
C10_Witness ==
  /\ lastOp = "_stemWord"
  /\ Len(arg) > 3
  /\ Len(ret) = 3
  /\ ret # arg

\* the tokens the feature extractor starts from
TokensOf(text) == _tokenizeText(text)

\* C9: for a text of n tokens, extractFeatures returns the n tokens in order,
\* duplicates kept, followed by the bigrams: with useBigrams and n >= 2 the
\* n-1 bigrams token[i]_token[i+1] in order, otherwise none.
C9_UnigramsThenBigrams ==
  lastOp = "_extractFeatures" =>
    LET tokens == TokensOf(arg)
        n == Len(tokens)
        bigrams == [ i \in 1..(n - 1) |->
                       tokens[i] \o << "_" >> \o tokens[i + 1] ]
    IN  /\ useBigrams /\ n >= 2 => ret = tokens \o bigrams
        /\ useBigrams /\ n <= 1 => ret = tokens
        /\ ~useBigrams => ret = tokens

\* three or more tokens, one of them twice, with their bigrams after them
C9_Witness ==
  /\ lastOp = "_extractFeatures"
  /\ useBigrams
  /\ Len(TokensOf(arg)) >= 3
  /\ Len(ret) = 2 * Len(TokensOf(arg)) - 1
  /\ \E i, j \in 1..Len(TokensOf(arg)) : i # j /\ ret[i] = ret[j]

\* C8 as stated: no token that tokenize returns is a member of the
\* StopwordSet.
C8_NoStopwordToken ==
  lastOp = "_tokenizeText" => \A i \in 1..Len(ret) : ret[i] \notin stopWords

IsNotStopword(tok) == tok \notin stopWords

\* C8 as amended: the tokens that tokenize returns are, in order, the stems
\* of the raw tokens that are not members of the StopwordSet; the test is
\* made on the raw token, before it is stemmed.
C8_StemsOfNonStopwords ==
  lastOp = "_tokenizeText" =>
    LET kept == SelectSeq(rawTokens(arg), IsNotStopword)
    IN  ret = [ i \in 1..Len(kept) |-> _stemWord(kept[i]) ]

\* a stopword was dropped, and the stem of a word that was kept is a
\* stopword
C8_Witness ==
  /\ lastOp = "_tokenizeText"
  /\ Len(ret) < Len(rawTokens(arg))
  /\ \E i \in 1..Len(ret) : ret[i] \in stopWords

\* C1: the Model after a train(X) call is the Model of a freshly
\* constructed classifier after one train(X), whatever train and classify
\* calls came before.
C1_TrainReplaces == lastOp = "train" => self = train(constructed, arg)

\* train was called on a Model that held documents, with an input that
\* has fewer documents than that Model had
C1_Witness ==
  /\ lastOp = "train"
  /\ dirty
  /\ totalDocs = 1
  /\ vocabSet # {}

\* does not split into exactly 3 fields on the first two "|"
C2_Malformed(rawLine) == CountChar(strip(rawLine), "|") < 2

\* a well-formed line with the empty text
C2_EmptyTextLine == << "1", "|", "|" >>

\* C2: classify returns as many predictions as it is given lines, the i-th
\* is the prediction for the i-th line and is "1" or "5"; a line that does
\* not split into 3 fields is classified as a line with the empty text.
C2_OnePredictionPerLine ==
  lastOp = "classify" =>
    /\ Len(ret) = Len(arg)
    /\ \A i \in 1..Len(arg) :
         /\ ret[i] \in { NEG, POS }
         /\ ret[i] = classify(rounding, self, << arg[i] >>).predictions[1]
         /\ C2_Malformed(arg[i]) =>
              ret[i] = classify(rounding, self,
                              << C2_EmptyTextLine >>).predictions[1]

\* a malformed line before a well-formed one that is predicted "5"
C2_Witness ==
  /\ lastOp = "classify"
  /\ Len(arg) = 2
  /\ C2_Malformed(arg[1])
  /\ arg[1] # << >>
  /\ ~C2_Malformed(arg[2])
  /\ ret = << NEG, POS >>

\* ln((wordCounts[l].get(f, 0) + alpha) / (totalWordCounts[l] + alpha *
\* vocabSize)) for the feature f
C3_LogOf(l, f) ==
  mathLog(Frac((IF f \in DOMAIN wordCounts[l] THEN wordCounts[l][f] ELSE 0)
                 + alphaVal,
               totalWordCounts[l] + alphaVal * vocabSize))

\* logPriors[l] plus the sum over the features, added in their order
RECURSIVE C3_Sum(_, _, _)
C3_Sum(l, sum, feats) ==
  IF feats = << >>
    THEN sum
    ELSE C3_Sum(l, logAdd(sum, C3_LogOf(l, Head(feats))), Tail(feats))

\* score(l)
C3_Score(l, feats) ==
  IF docCounts[l] = 0 THEN NegInf ELSE C3_Sum(l, logPriors[l], feats)

C3_TrainNeg ==
  << "1","|","|","t","e","r","r","i","b","l","e"," ","b","o","r","i","n","g",
     " ","f","i","l","m","\n" >>

C3_TrainPos ==
  << "5","|","|","G","r","e","a","t",","," ","e","x","c","i","t","i","n","g",
     " ","f","i","l","m","!" >>

\* a line with words of both records: its two scores are sums of the same
\* terms in different orders, the same real number
C3_LikeBoth ==
  << "1","|","|","f","i","l","m"," ","g","r","e","a","t"," ","t","e","r","r",
     "i","b","l","e" >>

\* a line that shares words with the "5" record only
C3_LikePos ==
  << "?","|","7","|","G","r","e","a","t",","," ","e","x","c","i","t","i","n",
     "g" >>

\* a line that shares words with the "1" record only
C3_LikeNeg ==
  << "5","|","|","t","e","r","r","i","b","l","e",","," ","b","o","r","i","n",
     "g" >>

\* as real numbers a > b, for two sums of logarithms: an exact comparison of
\* the products of the terms, which the order of the terms does not change
C3_Greater(a, b) ==
  /\ ~isNegInf(a)
  /\ \/ isNegInf(b)
     \/ LET pq == crossProducts(a, b) IN bigLess(pq[2], pq[1])

\* C3: classify predicts "5" exactly when score("5") is strictly greater
\* than score("1"), and "1" otherwise, an exact tie and two scores of
\* -infinity included, for score(l) = -infinity when docCounts[l] = 0 and
\* else logPriors[l] plus the sum over the features of the line of
\* ln((wordCounts[l].get(f, 0) + alpha) / (totalWordCounts[l] + alpha *
\* vocabSize)).  After training on one "1" record and one "5" record with
\* disjoint sentiment words, a line that shares words with one of them only
\* is given the label of that record.
C3_StrictlyGreaterScoreWins ==
  lastOp = "classify" =>
    /\ Len(ret) = Len(arg)
    /\ \A i \in 1..Len(arg) :
         LET feats == _extractFeatures(textOfLine(arg[i]))
             neg == C3_Score(NEG, feats)
             pos == C3_Score(POS, feats)
         IN  /\ ret[i] = POS <=> C3_Greater(pos, neg)
             /\ ret[i] = NEG <=> ~C3_Greater(pos, neg)
    /\ self = train(constructed, << C3_TrainNeg, C3_TrainPos >>) =>
         \A i \in 1..Len(arg) :
           /\ arg[i] = C3_LikePos => ret[i] = POS
           /\ arg[i] = C3_LikeNeg => ret[i] = NEG

\* what the program returns with alpha = 2 after train(["5||Great, exciting
\* film!", "1||terrible boring film\n"]) for classify(["5||terrible, boring",
\* "1||film great terrible"]): "1" for the line with the words of the "1"
\* record, and "5" for the line whose two scores are the same real number
C3_Witness ==
  /\ lastOp = "classify"
  /\ self = train(constructed, << C3_TrainPos, C3_TrainNeg >>)
  /\ alphaVal = 2
  /\ arg = << C3_LikeNeg, C3_LikeBoth >>
  /\ ret = << NEG, POS >>
  /\ LET feats == _extractFeatures(textOfLine(C3_LikeBoth))
         neg == C3_Score(NEG, feats)
         pos == C3_Score(POS, feats)
     IN  ~C3_Greater(pos, neg) /\ ~C3_Greater(neg, pos)

\* C4: when docCounts is zero for both labels, on a classifier that was
\* never trained and after a train call that accepted no record, classify
\* returns "1" for every line.
C4_NoDocsGivesNeg ==
  (lastOp = "classify" /\ docCounts[NEG] = 0 /\ docCounts[POS] = 0) =>
    /\ Len(ret) = Len(arg)
    /\ \A i \in 1..Len(arg) : ret[i] = NEG

\* train was given lines and accepted none, then classify was given a line
\* with features
C4_Witness ==
  /\ lastOp = "classify"
  /\ skipped
  /\ totalDocs = 0
  /\ \E i \in 1..Len(arg) : _extractFeatures(textOfLine(arg[i])) # << >>
  /\ \A i \in 1..Len(ret) : ret[i] = NEG

\* a line train accepts: not empty after trimming, at least two "|", and
\* "1" or "5" before the first of them
C5_Accepted(rawLine) ==
  LET line == strip(rawLine)
  IN  /\ line # << >>
      /\ CountChar(line, "|") >= 2
      /\ SubSeq(line, 1, find(line, "|") - 1) \in { NEG, POS }

\* C5: a line that train does not accept changes nothing; train(X) gives the
\* Model of train(X') for X' the accepted lines of X, and totalDocs is the
\* number of accepted lines.
C5_MalformedSkipped ==
  lastOp = "train" =>
    LET accepted == SelectSeq(arg, C5_Accepted)
    IN  /\ self = train(constructed, accepted)
        /\ totalDocs = Len(accepted)
        /\ \A i \in 1..Len(arg) :
             ~C5_Accepted(arg[i]) =>
               LET before == trainLoop(constructed, SubSeq(arg, 1, i - 1))
               IN  trainLine(before, arg[i]) = before

\* an accepted line, then a line that is not accepted
C5_Witness ==
  /\ lastOp = "train"
  /\ Len(arg) = 2
  /\ C5_Accepted(arg[1])
  /\ ~C5_Accepted(arg[2])
  /\ arg[2] # << >>
  /\ totalDocs = 1
  /\ vocabSet # {}

\* the sum of the values of a dict
RECURSIVE C6_SumOver(_, _)
C6_SumOver(d, keys) ==
  IF keys = {}
    THEN 0
    ELSE LET k == CHOOSE x \in keys : TRUE
         IN  d[k] + C6_SumOver(d, keys \ {k})

\* C6: totalDocs is the sum of docCounts, totalWordCounts[l] is the sum of
\* the counts of wordCounts[l], and vocabSize is max(1, |vocabulary|).
C6_ModelConsistent ==
  /\ totalDocs = docCounts[NEG] + docCounts[POS]
  /\ \A l \in labelSet :
       totalWordCounts[l] = C6_SumOver(wordCounts[l], DOMAIN wordCounts[l])
  /\ vocabSize = Max(1, Cardinality(vocabSet))
  /\ vocabSize >= 1

\* train accepted a record of each label, then classify was called
C6_Witness ==
  /\ lastOp = "classify"
  /\ docCounts[NEG] = 1
  /\ docCounts[POS] = 1
  /\ totalWordCounts[NEG] > 0
  /\ totalWordCounts[POS] > 0
  /\ DOMAIN wordCounts[NEG] # DOMAIN wordCounts[POS]
  /\ vocabSize = Cardinality(vocabSet)
  /\ vocabSize > 1

\* C7: a classify call leaves every field of the Model as it was, the key
\* sets of wordCounts included, and a classify call that repeats the call
\* before it returns the same predictions.
C7_ClassifyReadOnly ==
  [][ lastOp' = "classify" =>
        /\ modelVars' = modelVars
        /\ \A l \in labelSet : DOMAIN wordCounts'[l] = DOMAIN wordCounts[l]
        /\ (lastOp = "classify" /\ arg' = arg) => ret' = ret ]_vars

\* classify on a trained Model, given a line with a feature that training
\* never saw
C7_Witness ==
  /\ lastOp = "classify"
  /\ totalDocs > 0
  /\ \E i \in 1..Len(arg) :
       \E f \in Range(_extractFeatures(textOfLine(arg[i]))) : f \notin vocabSet

====
